---------------------------- MODULE Spec2Model ----------------------------
(***************************************************************************)
(* A model of listme / rememberme: the scanner of annotation comments      *)
(* (TODO, FIXME, BUG, ...).  Text is modelled as sequences of one-letter   *)
(* strings, so that the regular expressions of the program are computed    *)
(* letter by letter, as Python's re module computes them.                  *)
(***************************************************************************)
EXTENDS Integers, Sequences, FiniteSets, TLC

(***************************************************************************)
(* Letters and letter classes of the regular expressions.                  *)
(***************************************************************************)
Whitespace == {" ", "\t"}

Digits == {"0", "1", "2", "3", "4", "5", "6", "7", "8", "9"}

Letters ==
    {"A", "B", "C", "D", "E", "F", "G", "H", "I", "J", "K", "L", "M", "N",
     "O", "P", "Q", "R", "S", "T", "U", "V", "W", "X", "Y", "Z",
     "a", "b", "c", "d", "e", "f", "g", "h", "i", "j", "k", "l", "m", "n",
     "o", "p", "q", "r", "s", "t", "u", "v", "w", "x", "y", "z"}

\* \w of the tag check and of \b.
WordChars == Letters \cup Digits \cup {"_"}

\* [\s:;-] : what must follow a tag.
TagSeparators == Whitespace \cup {":", ";", "-"}

DigitValue(c) ==
    CASE c = "0" -> 0 [] c = "1" -> 1 [] c = "2" -> 2 [] c = "3" -> 3
      [] c = "4" -> 4 [] c = "5" -> 5 [] c = "6" -> 6 [] c = "7" -> 7
      [] c = "8" -> 8 [] c = "9" -> 9

\* int(digits): the value of a non-empty decimal numeral.
RECURSIVE ToInt(_)
ToInt(ds) ==
    IF Len(ds) = 0 THEN 0
    ELSE 10 * ToInt(SubSeq(ds, 1, Len(ds) - 1)) + DigitValue(ds[Len(ds)])

\* The token tok stands in s at position i.
At(s, i, tok) ==
    /\ i >= 1
    /\ i + Len(tok) - 1 <= Len(s)
    /\ \A k \in 1..Len(tok) : s[i + k - 1] = tok[k]

\* str.startswith
StartsWith(s, tok) == At(s, 1, tok)

EndsWith(s, tok) == Len(tok) <= Len(s) /\ At(s, Len(s) - Len(tok) + 1, tok)

\* The first position from i on that does not hold a letter of class cs.
RECURSIVE RunEnd(_, _, _)
RunEnd(s, i, cs) ==
    IF i <= Len(s) /\ s[i] \in cs THEN RunEnd(s, i + 1, cs) ELSE i

(***************************************************************************)
(* The comment tokens of tags_regex and COMMENT_REGEX.                     *)
(***************************************************************************)
\* <!--  --  /*  """  ''' : the openers of fixed length (#+ and //+ are runs).
FixedOpeners ==
    << <<"<", "!", "-", "-">>, <<"-", "-">>, <<"/", "*">>,
       <<"\"", "\"", "\"">>, <<"'", "'", "'">> >>

\* -->  #}}  */  --}}  }}  #}  """  ''' : the closers of fixed length (#+ is a run).
FixedClosers ==
    << <<"-", "-", ">">>, <<"#", "}", "}">>, <<"*", "/">>,
       <<"-", "-", "}", "}">>, <<"}", "}">>, <<"#", "}">>,
       <<"\"", "\"", "\"">>, <<"'", "'", "'">> >>

\* The positions at which one opener token that starts at i can end (one past
\* its last letter): #+ and //+ give back letters when the rest needs them.
OpenerEnds(s, i) ==
    {i + Len(FixedOpeners[k]) : k \in {n \in DOMAIN FixedOpeners : At(s, i, FixedOpeners[n])}}
      \cup (IF At(s, i, <<"#">>) THEN (i + 1)..RunEnd(s, i, {"#"}) ELSE {})
      \cup (IF At(s, i, <<"/", "/">>) THEN (i + 2)..RunEnd(s, i, {"/"}) ELSE {})

\* The same for one closer token.
CloserEnds(s, i) ==
    {i + Len(FixedClosers[k]) : k \in {n \in DOMAIN FixedClosers : At(s, i, FixedClosers[n])}}
      \cup (IF At(s, i, <<"#">>) THEN (i + 1)..RunEnd(s, i, {"#"}) ELSE {})

\* s[i..j-1] is made of opener tokens and whitespace only.
RECURSIVE OpenersAndSpace(_, _, _)
OpenersAndSpace(s, i, j) ==
    \/ i = j
    \/ /\ i < j
       /\ \/ s[i] \in Whitespace /\ OpenersAndSpace(s, i + 1, j)
          \/ \E e \in OpenerEnds(s, i) : e <= j /\ OpenersAndSpace(s, e, j)

\* (?:^|(?:(?:#+|//+|<!--|--|/\*|"""|''')+\s*)+)\s* matches s[i..j-1]: the
\* start of the line and whitespace, or a run of openers and whitespace that
\* begins with an opener.
CommentPrefix(s, i, j) ==
    \/ i = 1 /\ RunEnd(s, i, Whitespace) >= j
    \/ \E e \in OpenerEnds(s, i) : e <= j /\ OpenersAndSpace(s, e, j)

\* (?:$|-->|#\}\}|\*/|--\}\}|\}\}|#+|#\}|"""|''')*$ matches from k: the rest
\* of the line is closer tokens only.
RECURSIVE ClosersToEnd(_, _)
ClosersToEnd(s, k) ==
    \/ k = Len(s) + 1
    \/ \E e \in CloserEnds(s, k) : ClosersToEnd(s, e)

(***************************************************************************)
(* tags_regex, built in main from args.tags, and re.search with it.        *)
(***************************************************************************)
\* Python's None.
None == <<>>

\* \b : exactly one of the letters around position j is a word letter.
WordBoundary(s, j) ==
    (j > 1 /\ s[j - 1] \in WordChars) # (j <= Len(s) /\ s[j] \in WordChars)

\* The text starts after the separators, if any.
TextStart_loose(s, q) ==
    LET r == RunEnd(s, q, TagSeparators)
    IN  IF r <= Len(s) THEN r
        ELSE IF r - 1 > q THEN r - 1
        ELSE 0

\* [\s:;-]+ from q, greedy, followed by (.+?) which needs a letter: where the
\* captured text starts, or 0 when the two cannot match.  The separators give
\* one letter back when they run to the end of the line.
TextStart(s, q) ==
    LET r == RunEnd(s, q, TagSeparators)
    IN  IF r = q THEN 0
        ELSE IF r <= Len(s) THEN r
        ELSE IF r - 1 > q THEN r - 1
        ELSE 0

\* (.+?) from t, lazy, followed by the closers and $ : one past the end of
\* the shortest text after which only closer tokens remain.
TextEnd(s, t) ==
    CHOOSE e \in (t + 1)..(Len(s) + 1) :
        /\ ClosersToEnd(s, e)
        /\ \A f \in (t + 1)..(e - 1) : ~ClosersToEnd(s, f)

\* Where a tag can stand: <<k, j>>, the tag tags[k] at j, after the start of
\* the line or a word boundary, followed by separators and a text.
TagCandidates(tags, s) ==
    {m \in (DOMAIN tags) \X (DOMAIN s) :
        /\ At(s, m[2], tags[m[1]])
        /\ (m[2] = 1 \/ WordBoundary(s, m[2]))
        /\ TextStart(s, m[2] + Len(tags[m[1]])) # 0}

\* The positions at which a match whose tag stands at j can start.
MatchStarts(s, j) == {i \in 1..j : CommentPrefix(s, i, j)}

\* re.search(tags_regex, text) and .groups(): None, or <<tag, txt>> of the
\* leftmost match; of the tags that match there the alternation takes the
\* first.
tags_regex_search(tags, text) ==
    LET found == {m \in TagCandidates(tags, text) : MatchStarts(text, m[2]) # {}}
        start(m) == CHOOSE i \in MatchStarts(text, m[2]) :
                        \A o \in MatchStarts(text, m[2]) : i <= o
    IN  IF found = {} THEN None
        ELSE LET m == CHOOSE x \in found : \A y \in found :
                          \/ start(x) < start(y)
                          \/ start(x) = start(y) /\ x[1] <= y[1]
                 t == TextStart(text, m[2] + Len(tags[m[1]]))
             IN  <<tags[m[1]], SubSeq(text, t, TextEnd(text, t) - 1)>>

(***************************************************************************)
(* re.sub(COMMENT_REGEX, "", text): the cleaning step of prettify_line.    *)
(***************************************************************************)
\* (?:#+|//+|<!--|--|/\*|"""|''') at i, greedy and with nothing after it
\* that could make it give letters back: one past the token, or i.
GreedyOpenerEnd(s, i) ==
    IF At(s, i, <<"#">>) THEN RunEnd(s, i, {"#"})
    ELSE IF At(s, i, <<"/", "/">>) THEN RunEnd(s, i, {"/"})
    ELSE IF \E k \in DOMAIN FixedOpeners : At(s, i, FixedOpeners[k])
         THEN i + Len(FixedOpeners[CHOOSE k \in DOMAIN FixedOpeners : At(s, i, FixedOpeners[k])])
    ELSE i

\* The openers and whitespace from i on, taken greedily.
RECURSIVE SkipOpeners(_, _)
SkipOpeners(s, i) ==
    IF GreedyOpenerEnd(s, i) # i THEN SkipOpeners(s, GreedyOpenerEnd(s, i))
    ELSE IF i <= Len(s) /\ s[i] \in Whitespace THEN SkipOpeners(s, i + 1)
    ELSE i

\* ^(?:(?:openers)+\s*)+\s* : one past the leading decoration (1: there is none).
CommentOpenEnd(s) ==
    IF GreedyOpenerEnd(s, 1) = 1 THEN 1 ELSE SkipOpeners(s, 1)

\* The start of the last closer token of the text only.
CommentCloseStart_last(s, p) ==
    IF \E k \in p..Len(s) : Len(s) + 1 \in CloserEnds(s, k)
    THEN CHOOSE k \in p..Len(s) :
             /\ Len(s) + 1 \in CloserEnds(s, k)
             /\ \A f \in (k + 1)..Len(s) : Len(s) + 1 \notin CloserEnds(s, f)
    ELSE Len(s) + 1

\* (?:closers)*$ : the leftmost position, from p on, after which only closer
\* tokens remain.
CommentCloseStart(s, p) ==
    CHOOSE k \in p..(Len(s) + 1) :
        /\ ClosersToEnd(s, k)
        /\ \A f \in p..(k - 1) : ~ClosersToEnd(s, f)

\* re.sub(COMMENT_REGEX, "", text): both matches replaced by nothing.
CleanText(text) ==
    LET p == CommentOpenEnd(text)
    IN  SubSeq(text, p, CommentCloseStart(text, p) - 1)

(***************************************************************************)
(* The parsers of ripgrep's output.  The output is given as its lines      *)
(* (output.splitlines()); a dict is a function, {} the empty one.          *)
(***************************************************************************)
EmptyDict == <<>>

\* dict "out" after the setdefaults and the two appends.
AppendHit(out, line, text) ==
    IF DOMAIN out = {} THEN [lines |-> <<line>>, texts |-> <<text>>]
    ELSE [lines |-> Append(out.lines, line), texts |-> Append(out.texts, text)]

\* The first ':' of the line, whatever precedes it.
FileLineSplit_any(line) ==
    IF \E r \in 2..Len(line) : line[r] = ":"
    THEN CHOOSE r \in 2..Len(line) : line[r] = ":" /\ \A q \in 2..(r - 1) : line[q] # ":"
    ELSE 0

\* ^([0-9]+):(.*) on one line: one past the digits, or 0 when it does not match.
FileLineSplit(line) ==
    LET r == RunEnd(line, 1, Digits)
    IN  IF r > 1 /\ r <= Len(line) /\ line[r] = ":" THEN r ELSE 0

RECURSIVE parse_rg_output_file(_)
parse_rg_output_file(output) ==
    IF output = <<>> THEN EmptyDict
    ELSE LET out == parse_rg_output_file(SubSeq(output, 1, Len(output) - 1))
             line == output[Len(output)]
             r == FileLineSplit(line)
         IN  IF r = 0 THEN out
             ELSE AppendHit(out, SubSeq(line, 1, r - 1), SubSeq(line, r + 1, Len(line)))

\* The positions of a ':' that ends a non-empty file name and is followed by
\* digits and a ':'.
FolderSplits(line) ==
    {p \in 2..Len(line) :
        /\ line[p] = ":"
        /\ LET r == RunEnd(line, p + 1, Digits)
           IN  r > p + 1 /\ r <= Len(line) /\ line[r] = ":"}

\* The first such ':' of the line.
FolderLineSplit_first(line) ==
    IF FolderSplits(line) = {} THEN 0
    ELSE CHOOSE p \in FolderSplits(line) : \A q \in FolderSplits(line) : p <= q

\* ^(.+):([0-9]+):(.*) on one line: (.+) is greedy, so the last such ':'
\* (0 when the line does not match).
FolderLineSplit(line) ==
    IF FolderSplits(line) = {} THEN 0
    ELSE CHOOSE p \in FolderSplits(line) : \A q \in FolderSplits(line) : q <= p

RECURSIVE parse_rg_output_folder(_)
parse_rg_output_folder(output) ==
    IF output = <<>> THEN EmptyDict
    ELSE LET by_file_ == parse_rg_output_folder(SubSeq(output, 1, Len(output) - 1))
             line == output[Len(output)]
             p == FolderLineSplit(line)
             r == RunEnd(line, p + 1, Digits)
             file == SubSeq(line, 1, p - 1)
             old == IF file \in DOMAIN by_file_ THEN by_file_[file] ELSE EmptyDict
             new == AppendHit(old, SubSeq(line, p + 1, r - 1), SubSeq(line, r + 1, Len(line)))
         IN  IF p = 0 THEN by_file_
             ELSE [f \in (DOMAIN by_file_) \cup {file} |-> IF f = file THEN new ELSE by_file_[f]]

(***************************************************************************)
(* git_tools: the blame correlator.  Times are counted in ticks, several   *)
(* to a day; blame rows are lines of text.                                 *)
(***************************************************************************)
\* Length of a commit hash in a blame row: the {40} of hash_regex.
HashLen == 40

\* Ticks in a day: the grain of datetime.now() and of commit times.
TicksPerDay == 2

\* Dict helpers: d[k] = v, and d.get(k, default).
DictSet(d, k, v) == [x \in (DOMAIN d) \cup {k} |-> IF x = k THEN v ELSE d[x]]

DictGet(d, k, default) == IF k \in DOMAIN d THEN d[k] ELSE default

\* AuthorInfo(): the dataclass defaults; the default date is the time the
\* class was defined (datetime.today() at import).
AuthorInfo(today) == [name |-> <<>>, date |-> today]

\* ^(.{40}) \d+ (\d+) : one past the second number, or 0 when the row is no
\* header row.
HeaderRowEnd(blame) ==
    LET r1 == RunEnd(blame, HashLen + 2, Digits)
        r2 == RunEnd(blame, r1 + 1, Digits)
    IN  IF /\ Len(blame) >= HashLen + 1
           /\ blame[HashLen + 1] = " "
           /\ r1 > HashLen + 2
           /\ r1 <= Len(blame)
           /\ blame[r1] = " "
           /\ r2 > r1 + 1
        THEN r2 ELSE 0

\* The final line number of a header row: its second number.
HeaderRowLine(blame) ==
    LET r1 == RunEnd(blame, HashLen + 2, Digits)
    IN  ToInt(SubSeq(blame, r1 + 1, HeaderRowEnd(blame) - 1))

AuthorPrefix == <<"a", "u", "t", "h", "o", "r", " ">>

AuthorTimePrefix == <<"a", "u", "t", "h", "o", "r", "-", "t", "i", "m", "e", " ">>

\* A parse_blame that keeps the first header row naming a line and the first
\* author row under a hash, where parse_blame lets the last one win.
parse_blame_keep(blame, st, today) ==
    LET current_hash == st[1]
        lines_hash == st[2]
        hash_authors == st[3]
        info == DictGet(hash_authors, current_hash, AuthorInfo(today))
        t == RunEnd(blame, Len(AuthorTimePrefix) + 1, Digits)
    IN  IF HeaderRowEnd(blame) # 0
        THEN <<SubSeq(blame, 1, HashLen),
               IF HeaderRowLine(blame) \in DOMAIN lines_hash THEN lines_hash
               ELSE DictSet(lines_hash, HeaderRowLine(blame), SubSeq(blame, 1, HashLen)),
               hash_authors>>
        ELSE IF StartsWith(blame, AuthorPrefix) /\ Len(blame) > Len(AuthorPrefix)
        THEN <<current_hash, lines_hash,
               IF info.name # <<>> THEN hash_authors
               ELSE DictSet(hash_authors, current_hash,
                       [info EXCEPT !.name = SubSeq(blame, Len(AuthorPrefix) + 1, Len(blame))])>>
        ELSE IF StartsWith(blame, AuthorTimePrefix) /\ t > Len(AuthorTimePrefix) + 1
        THEN <<current_hash, lines_hash,
               DictSet(hash_authors, current_hash,
                       [info EXCEPT !.date = ToInt(SubSeq(blame, Len(AuthorTimePrefix) + 1, t - 1))])>>
        ELSE st

\* parse_blame: one row folded into <<current_hash, lines_hash, hash_authors>>.
\* st is that triple before the row.
parse_blame(blame, st, today) ==
    LET current_hash == st[1]
        lines_hash == st[2]
        hash_authors == st[3]
        info == DictGet(hash_authors, current_hash, AuthorInfo(today))
        t == RunEnd(blame, Len(AuthorTimePrefix) + 1, Digits)
    IN  IF HeaderRowEnd(blame) # 0
        THEN <<SubSeq(blame, 1, HashLen),
               DictSet(lines_hash, HeaderRowLine(blame), SubSeq(blame, 1, HashLen)),
               hash_authors>>
        ELSE IF StartsWith(blame, AuthorPrefix) /\ Len(blame) > Len(AuthorPrefix)
        THEN <<current_hash, lines_hash,
               DictSet(hash_authors, current_hash,
                       [info EXCEPT !.name = SubSeq(blame, Len(AuthorPrefix) + 1, Len(blame))])>>
        ELSE IF StartsWith(blame, AuthorTimePrefix) /\ t > Len(AuthorTimePrefix) + 1
        THEN <<current_hash, lines_hash,
               DictSet(hash_authors, current_hash,
                       [info EXCEPT !.date = ToInt(SubSeq(blame, Len(AuthorTimePrefix) + 1, t - 1))])>>
        ELSE st

\* The loop of blame_lines over the rows.
RECURSIVE ParseBlames(_, _)
ParseBlames(blames, today) ==
    IF blames = <<>>
    THEN << <<"n", "u", "l", "l">>, EmptyDict, EmptyDict >>
    ELSE parse_blame(blames[Len(blames)],
                     ParseBlames(SubSeq(blames, 1, Len(blames) - 1), today), today)

\* max(lines)
MaxOf(lines) == CHOOSE m \in {lines[i] : i \in DOMAIN lines} : \A i \in DOMAIN lines : lines[i] <= m

Fatal == <<"f", "a", "t", "a", "l">>

NoHash == <<"n", "o", "-", "h", "a", "s", "h">>

\* The answer for a file that git does not track: 1 + max(lines) defaults.
FatalBlames(lines, today) == [i \in 1..(1 + MaxOf(lines)) |-> AuthorInfo(today)]

\* blame_lines (listme/git_tools.py), given the rows blame_file returned.
blame_lines(blames, lines, today) ==
    IF StartsWith(blames[1], Fatal)
    THEN FatalBlames(lines, today)
    ELSE LET st == ParseBlames(blames, today)
         IN  [i \in 1..Len(lines) |->
                 DictGet(st[3], DictGet(st[2], lines[i], NoHash), AuthorInfo(today))]

(***************************************************************************)
(* rememberme/git_tools.py: the correlator over `git blame -l` rows.  A    *)
(* row that has the layout of its regular expression is a record of the    *)
(* fields the expression captures or steps over: the author, the date      *)
(* (a day) and the time of day; any other row is a line of text.           *)
(***************************************************************************)
HasBlameLayout(blame) == DOMAIN blame = {"author", "day", "time"}

\* parse_blame: <<name, date>>; strptime(date, "%Y-%m-%d") keeps the day.
legacy_parse_blame(blame, today) ==
    IF ~HasBlameLayout(blame) THEN << <<>>, today >>
    ELSE <<blame.author, blame.day * TicksPerDay>>

legacy_blame_lines(blames, lines, today) ==
    IF ~HasBlameLayout(blames[1]) /\ StartsWith(blames[1], Fatal)
    THEN [i \in 1..(1 + MaxOf(lines)) |-> << <<>>, today >>]
    ELSE [i \in 1..Len(lines) |-> legacy_parse_blame(blames[lines[i]], today)]

(***************************************************************************)
(* Strings: order, numerals, and the path functions of shorten_filepath.   *)
(***************************************************************************)
\* The printable ASCII letters in code-point order, from 32 on (the grave
\* accent, which no string of the model holds, is spelled out).
Ascii ==
    <<" ", "!", "\"", "#", "$", "%", "&", "'", "(", ")", "*", "+", ",", "-", ".", "/",
      "0", "1", "2", "3", "4", "5", "6", "7", "8", "9", ":", ";", "<", "=", ">", "?",
      "@", "A", "B", "C", "D", "E", "F", "G", "H", "I", "J", "K", "L", "M", "N", "O",
      "P", "Q", "R", "S", "T", "U", "V", "W", "X", "Y", "Z", "[", "\\", "]", "^", "_",
      "grave", "a", "b", "c", "d", "e", "f", "g", "h", "i", "j", "k", "l", "m", "n", "o",
      "p", "q", "r", "s", "t", "u", "v", "w", "x", "y", "z", "{", "|", "}", "~">>

\* ord(c)
Ord(c) == IF c = "\t" THEN 9 ELSE 31 + (CHOOSE k \in DOMAIN Ascii : Ascii[k] = c)

\* a < b for Python strings: by code point, a proper prefix first.
RECURSIVE StrLess(_, _)
StrLess(a, b) ==
    IF b = <<>> THEN FALSE
    ELSE IF a = <<>> THEN TRUE
    ELSE IF a[1] # b[1] THEN Ord(a[1]) < Ord(b[1])
    ELSE StrLess(Tail(a), Tail(b))

\* The keys from the greatest to the least.
RECURSIVE Sorted_descending(_)
Sorted_descending(keys) ==
    IF keys = {} THEN <<>>
    ELSE LET most == CHOOSE k \in keys : \A o \in keys \ {k} : StrLess(o, k)
         IN  <<most>> \o Sorted_descending(keys \ {most})

\* sorted(keys)
RECURSIVE Sorted(_)
Sorted(keys) ==
    IF keys = {} THEN <<>>
    ELSE LET least == CHOOSE k \in keys : \A o \in keys \ {k} : StrLess(k, o)
         IN  <<least>> \o Sorted(keys \ {least})

\* str(n) for n >= 0
RECURSIVE ToStr(_)
ToStr(n) ==
    IF n < 10 THEN <<Ascii[17 + n]>>
    ELSE Append(ToStr(n \div 10), Ascii[17 + (n % 10)])

\* s.replace(old, "") from position i on: every occurrence, left to right.
RECURSIVE RemoveAll(_, _, _)
RemoveAll(s, old, i) ==
    IF i > Len(s) THEN <<>>
    ELSE IF At(s, i, old) THEN RemoveAll(s, old, i + Len(old))
    ELSE <<s[i]>> \o RemoveAll(s, old, i + 1)

\* s.strip("/")
RECURSIVE StripSlashes(_)
StripSlashes(s) ==
    IF s # <<>> /\ s[1] = "/" THEN StripSlashes(Tail(s))
    ELSE IF s # <<>> /\ s[Len(s)] = "/" THEN StripSlashes(SubSeq(s, 1, Len(s) - 1))
    ELSE s

\* os.path.basename
RECURSIVE Basename(_)
Basename(s) ==
    IF \E i \in DOMAIN s : s[i] = "/"
    THEN Basename(SubSeq(s, (CHOOSE i \in DOMAIN s : s[i] = "/") + 1, Len(s)))
    ELSE s

shorten_filepath(file_path, search_path, path_type) ==
    IF path_type = "relative"
    THEN LET rel_path == StripSlashes(RemoveAll(file_path, search_path, 1))
         IN  IF rel_path # <<>> THEN rel_path ELSE Basename(file_path)
    ELSE file_path

(***************************************************************************)
(* The formatting functions of parser.py.  Rich markup is a sequence whose *)
(* elements are letters and markup words such as "[bold]"; CONFIG holds no *)
(* extra_symbols, so emojify gives the tag back.                           *)
(***************************************************************************)
boldify(string) == <<"[bold]">> \o string \o <<"[/bold]">>

\* colorize: the tag chooses the colour; a tag without a colour leaves the
\* string as it is.
ColouredTags ==
    { <<"T", "O", "D", "O">>, <<"X", "X", "X">>, <<"F", "I", "X", "M", "E">>,
      <<"O", "P", "T", "I", "M", "I", "Z", "E">>, <<"B", "U", "G">>,
      <<"N", "O", "T", "E">>, <<"H", "A", "C", "K">>,
      <<"#", "O", "L", "D", "_", "_", "C", "O", "M", "M", "I", "T">> }

colorize(string, tag) ==
    IF tag \in ColouredTags
    THEN <<"[colour of ">> \o tag \o <<"]">> \o string \o <<"[/colour]">>
    ELSE string

emojify(tag) == tag

RECURSIVE Spaces(_)
Spaces(n) == IF n <= 0 THEN <<>> ELSE <<" ">> \o Spaces(n - 1)

pad_line_number(number, max_digits) ==
    <<"\\", "[", "L", "i", "n", "e", " ">> \o Spaces(max_digits - Len(number))
        \o number \o <<"]", " ">>

prettify_line(text, tag, style) ==
    LET plain == boldify(emojify(tag)) \o <<":", " ">> \o CleanText(text) \o <<" ">>
    IN  IF style = "full" THEN colorize(plain, tag) ELSE plain

get_plain_line(tag, text) == <<"\t">> \o tag \o <<":", " ">> \o text

stylize_filename(file, n_lines, style) ==
    IF style = "plain" THEN file
    ELSE IF style = "full"
    THEN <<"[bold deep_sky_blue3]", "*", " ">> \o file \o <<"[/bold deep_sky_blue3]", " ", "(">>
            \o ToStr(n_lines) \o <<" ", "comments", ")", ":">>
    ELSE IF style = "bw"
    THEN <<"[bold]", "*", " ">> \o file \o <<"[/bold]", " ", "(">>
            \o ToStr(n_lines) \o <<" ", "comments", ")", ":">>
    ELSE file

OldCommit == <<"#", "O", "L", "D", "_", "_", "C", "O", "M", "M", "I", "T">>

\* author_info.date < datetime.now() - timedelta(days=age_limit)
IsOld(date, now, age_limit) == date < now - age_limit * TicksPerDay

\* The label without the test of the name.
tag_git_author_unnamed(author_info, tag, age_limit, style, now) ==
    IF style = "plain" THEN <<>>
    ELSE LET old == IsOld(author_info.date, now, age_limit)
             git_author == IF old
                           THEN <<"[bold]", "O", "L", "D", " ">> \o author_info.name \o <<"[/bold]">>
                           ELSE author_info.name
             bracketed == <<"[">> \o git_author \o <<"]">>
             shown == IF style = "full"
                      THEN colorize(bracketed, IF old THEN OldCommit ELSE tag) \o <<" ">>
                      ELSE bracketed
         IN  <<" ">> \o shown \o <<" ">>

\* tag_git_author; now is what datetime.now() returns.  "" is <<>>.
tag_git_author(author_info, tag, age_limit, style, now) ==
    IF author_info.name = <<>> \/ style = "plain" THEN <<>>
    ELSE LET old == IsOld(author_info.date, now, age_limit)
             git_author == IF old
                           THEN <<"[bold]", "O", "L", "D", " ">> \o author_info.name \o <<"[/bold]">>
                           ELSE author_info.name
             bracketed == <<"[">> \o git_author \o <<"]">>
             shown == IF style = "full"
                      THEN colorize(bracketed, IF old THEN OldCommit ELSE tag) \o <<" ">>
                      ELSE bracketed
         IN  <<" ">> \o shown \o <<" ">>

\* prettify_summary: the tags with a count above 0, each with its count.
\* A dict keeps its keys in insertion order: that of tags.
RECURSIVE prettify_summary(_, _, _)
prettify_summary(file_summary, tags, style) ==
    IF tags = <<>> THEN <<>>
    ELSE LET tag == tags[Len(tags)]
             rest == prettify_summary(file_summary, SubSeq(tags, 1, Len(tags) - 1), style)
             string == <<" ">> \o boldify(emojify(tag)) \o <<":", " ">>
                          \o ToStr(file_summary[tag]) \o <<" ">>
         IN  IF tag \notin DOMAIN file_summary \/ file_summary[tag] <= 0
                \/ \E k \in 1..(Len(tags) - 1) : tags[k] = tag
             THEN rest
             ELSE Append(rest, [tag |-> tag, count |-> file_summary[tag],
                                string |-> IF style = "full" THEN colorize(string, tag)
                                           ELSE string])

\* A summary for any tag with a count, even a single one.
print_summary_any(tag_counter, tags, style) ==
    IF Cardinality({t \in DOMAIN tag_counter : tag_counter[t] > 0}) > 0 /\ style # "plain"
    THEN <<[kind |-> "summary", body |-> prettify_summary(tag_counter, tags, style)]>>
    ELSE <<>>

\* print_summary: what it prints, if anything.
print_summary(tag_counter, tags, style) ==
    IF Cardinality({t \in DOMAIN tag_counter : tag_counter[t] > 0}) > 1 /\ style # "plain"
    THEN <<[kind |-> "summary", body |-> prettify_summary(tag_counter, tags, style)]>>
    ELSE <<>>

(***************************************************************************)
(* print_parsed_file.                                                      *)
(***************************************************************************)
\* A tally that starts from 1.
ZeroCounter_ones(tags) == [t \in {tags[k] : k \in DOMAIN tags} |-> 1]

\* tag_counter = {tag: 0 for tag in args.tags}
ZeroCounter(tags) == [t \in {tags[k] : k \in DOMAIN tags} |-> 0]

\* re.search(tags_regex, text) for each hit of a file: what the loop of
\* print_parsed_file finds, hit by hit.
MatchHits(texts, tags) == [n \in DOMAIN texts |-> tags_regex_search(tags, texts[n])]

\* The loop that ends at the first hit without a match.
RECURSIVE HitLoop_stop(_, _, _, _, _, _)
HitLoop_stop(contents, found, blames, a, now, n) ==
    IF n = 0
    THEN [print_lines |-> <<>>, tag_counter |-> ZeroCounter(a.tags), warnings |-> <<>>]
    ELSE LET prev == HitLoop_stop(contents, found, blames, a, now, n - 1)
             groups == found[n]
             row == <<pad_line_number(contents.lines[n], Len(contents.lines[Len(contents.lines)])),
                      prettify_line(groups[2], groups[1], a.style)>>
                        \o (IF a.author
                            THEN <<tag_git_author(blames[n], groups[1], a.age_limit, a.style, now)>>
                            ELSE <<>>)
         IN  IF \E m \in 1..n : found[m] = None
             THEN [prev EXCEPT !.warnings = IF a.verbose /\ @ = <<>>
                                            THEN <<contents.texts[n]>> ELSE @]
             ELSE [print_lines |-> Append(prev.print_lines,
                                          IF a.style = "plain"
                                          THEN get_plain_line(groups[1], groups[2])
                                          ELSE row),
                   tag_counter |-> [prev.tag_counter EXCEPT ![groups[1]] = @ + 1],
                   warnings |-> prev.warnings]

\* The loop over the hits of one file, after its first n hits: the lines to
\* print, the tally, and the warnings log_warning printed on the way.
\* found[n] is the match of the n-th hit.
RECURSIVE HitLoop(_, _, _, _, _, _)
HitLoop(contents, found, blames, a, now, n) ==
    IF n = 0
    THEN [print_lines |-> <<>>, tag_counter |-> ZeroCounter(a.tags), warnings |-> <<>>]
    ELSE LET prev == HitLoop(contents, found, blames, a, now, n - 1)
             text == contents.texts[n]
             groups == found[n]
             max_digits == Len(contents.lines[
                               CHOOSE i \in DOMAIN contents.lines :
                                   \A j \in DOMAIN contents.lines :
                                       Len(contents.lines[j]) <= Len(contents.lines[i])])
             row == <<pad_line_number(contents.lines[n], max_digits),
                      prettify_line(groups[2], groups[1], a.style)>>
                        \o (IF a.author
                            THEN <<tag_git_author(blames[n], groups[1], a.age_limit, a.style, now)>>
                            ELSE <<>>)
         IN  IF groups = None
             THEN [prev EXCEPT !.warnings = IF a.verbose THEN Append(@, text) ELSE @]
             ELSE [print_lines |-> Append(prev.print_lines,
                                          IF a.style = "plain"
                                          THEN get_plain_line(groups[1], groups[2])
                                          ELSE row),
                   tag_counter |-> [prev.tag_counter EXCEPT ![groups[1]] = @ + 1],
                   warnings |-> prev.warnings]

\* print_parsed_file, for contents that are not empty: everything it writes
\* to the standard output, in order.  blame_rows is what blame_file returns
\* for the file, today the default date of AuthorInfo, found the matches of
\* the hits (MatchHits).
print_parsed_file(file, contents, found, a, blame_rows, today, now) ==
    LET lines == contents.lines
        blames == blame_lines(blame_rows, [i \in DOMAIN lines |-> ToInt(lines[i])], today)
        end == HitLoop(contents, found, blames, a, now, Len(contents.texts))
        shown == shorten_filepath(file, a.path, a.path_type)
    IN  <<[kind |-> "filename", body |-> stylize_filename(shown, Len(lines), a.style)]>>
          \o [i \in DOMAIN end.warnings |-> [kind |-> "warning", body |-> end.warnings[i]]]
          \o print_summary(IF a.summary THEN end.tag_counter ELSE EmptyDict, a.tags, a.style)
          \o [i \in DOMAIN end.print_lines |-> [kind |-> "line", body |-> end.print_lines[i]]]
          \o <<[kind |-> "blank", body |-> <<>>]>>

(***************************************************************************)
(* The inputs of a run.                                                    *)
(***************************************************************************)
\* Most lines ripgrep prints in one run.
MaxHits == 2

\* The highest line number of a hit.
MaxLine == 2

\* The default of --tags.
DefaultTags ==
    << <<"B", "U", "G">>, <<"F", "I", "X", "M", "E">>, <<"X", "X", "X">>,
       <<"T", "O", "D", "O">>, <<"H", "A", "C", "K">>,
       <<"O", "P", "T", "I", "M", "I", "Z", "E">>, <<"N", "O", "T", "E">> >>

\* The folder that is searched, and the files in it that hold tags.
SearchFolder == <<"/", "r">>

Files == { <<"/", "r", "/", "b">>, <<"/", "r", "/", "a">> }

\* The text of a hit: "# TODO x", "/* BUG */", and the line "x TODOS", which
\* the search tool is not expected to report.
HitTexts ==
    { <<"#", " ", "T", "O", "D", "O", " ", "x">>,
      <<"/", "*", " ", "B", "U", "G", " ", "*", "/">>,
      <<"x", " ", "T", "O", "D", "O", "S">> }

\* A line of the standard output that is no hit.
NoiseLine == <<"r", "g", ":", " ", "x">>

\* "<file>:<N>:<text>" and "<N>:<text>", as ripgrep prints a hit.
FolderHit(file, n, text) == file \o <<":">> \o ToStr(n) \o <<":">> \o text

FileHit(n, text) == ToStr(n) \o <<":">> \o text

\* Sequences over S of length up to n.
RECURSIVE SeqsUpTo(_, _)
SeqsUpTo(S, n) ==
    IF n = 0 THEN {<<>>}
    ELSE LET shorter == SeqsUpTo(S, n - 1)
         IN  shorter \cup {Append(s, x) : s \in {t \in shorter : Len(t) = n - 1}, x \in S}

\* What ripgrep can print: up to MaxHits hits (and noise), the hits of one
\* file with ascending line numbers.
HitsOf(isdir) ==
    LET fs == IF isdir THEN Files ELSE {<<>>}
        hs == {[file |-> f, n |-> n, text |-> t] : f \in fs, n \in 1..MaxLine, t \in HitTexts}
                 \cup {[file |-> <<>>, n |-> 0, text |-> NoiseLine]}
    IN  {s \in SeqsUpTo(hs, MaxHits) :
            \A i, j \in DOMAIN s :
                (i < j /\ s[i].n > 0 /\ s[j].n > 0 /\ s[i].file = s[j].file) => s[i].n < s[j].n}

HitLine(isdir, h) ==
    IF h.n = 0 THEN h.text
    ELSE IF isdir THEN FolderHit(h.file, h.n, h.text)
    ELSE FileHit(h.n, h.text)

\* The time at which the program starts (and AuthorInfo is defined), and the
\* ticks a run may take.
StartTime == 4

MaxRunTicks == 1

\* A commit hash.
Hash(c) == [i \in 1..HashLen |-> c]

AuthorRow(name) == AuthorPrefix \o name

AuthorTimeRow(t) == AuthorTimePrefix \o ToStr(t)

HeaderRow(hash, orig, final) == hash \o <<" ">> \o ToStr(orig) \o <<" ">> \o ToStr(final)

ContentRow == <<"\t", "x">>

\* `git blame --porcelain` of a file whose lines 1..n one commit wrote.
RECURSIVE PorcelainOf(_, _, _, _)
PorcelainOf(hash, name, t, n) ==
    IF n = 0 THEN <<>>
    ELSE IF n = 1
    THEN <<HeaderRow(hash, 1, 1), AuthorRow(name), AuthorTimeRow(t), ContentRow>>
    ELSE PorcelainOf(hash, name, t, n - 1) \o <<HeaderRow(hash, n, n), ContentRow>>

FatalOutput == << Fatal \o <<":", " ", "n", "o", " ", "s", "u", "c", "h", " ", "p", "a", "t", "h">> >>

\* What blame_file can return in a run: the file is not tracked, or one
\* commit wrote it, long ago or a day ago.
RunBlames ==
    {FatalOutput}
      \cup {PorcelainOf(Hash("a"), <<"m", "e">>, t, MaxLine) : t \in {0, StartTime - TicksPerDay}}

Styles == {"full", "bw", "plain"}

\* The default of --age-limit, in days.
DefaultAgeLimit == 1

\* The options that only change how an entry is shown, at their defaults.
ShowDefaults == [author |-> TRUE, verbose |-> FALSE, path_type |-> "relative",
                 age_limit |-> DefaultAgeLimit]

\* Those options: the defaults, or one of them changed.
ShowOptions ==
    {ShowDefaults, [ShowDefaults EXCEPT !.author = FALSE],
     [ShowDefaults EXCEPT !.verbose = TRUE], [ShowDefaults EXCEPT !.path_type = "full"],
     [ShowDefaults EXCEPT !.age_limit = 0]}

\* The arguments of a run: a folder or one file, every style, with and
\* without the summary.
ArgSets ==
    {[path |-> IF isdir THEN SearchFolder ELSE CHOOSE f \in Files : TRUE,
      isdir |-> isdir, tags |-> DefaultTags, style |-> style, summary |-> summary,
      author |-> o.author, verbose |-> o.verbose, path_type |-> o.path_type,
      age_limit |-> o.age_limit] :
        isdir \in BOOLEAN, style \in Styles, summary \in BOOLEAN, o \in ShowOptions}

(***************************************************************************)
(* A run of main.                                                          *)
(***************************************************************************)
VARIABLES
    pc,           \* where main stands
    args,         \* the parsed arguments
    rg_hits,      \* what ripgrep found: the hits behind the lines of its output
    rg_output,    \* the lines of ripgrep's standard output
    rg_error,     \* ripgrep's standard error
    by_file,      \* the parsed hits: file -> {"lines", "texts"}
    queue,        \* sorted(by_file), the files not yet printed
    CONSOLE,      \* what was written to the standard output, in order
    blame_calls,  \* the calls of blame_file, each with the length of CONSOLE then
                  \* and what re.search found in the hits of the file
    call          \* a function of the program applied on its own: its name,
                  \* its arguments and, once it has returned, its result

vars == <<pc, args, rg_hits, rg_output, rg_error, by_file, queue, CONSOLE, blame_calls, call>>

\* No function is applied on its own.
NoCall == [op |-> "none"]

Init ==
    /\ pc = "start"
    /\ args \in ArgSets
    /\ rg_hits = <<>>
    /\ rg_output = <<>>
    /\ rg_error = <<>>
    /\ by_file = EmptyDict
    /\ queue = <<>>
    /\ CONSOLE = <<>>
    /\ blame_calls = <<>>
    /\ call = NoCall

\* subprocess.run(cmd, capture_output=True)
RunRipgrep ==
    /\ pc = "start"
    /\ \E hits \in HitsOf(args.isdir), err \in {<<>>, <<"e", "r", "r">>} :
          /\ rg_hits' = hits
          /\ rg_output' = [i \in DOMAIN hits |-> HitLine(args.isdir, hits[i])]
          /\ rg_error' = err
    /\ pc' = "searched"
    /\ UNCHANGED <<args, by_file, queue, CONSOLE, blame_calls, call>>

\* if rg_error: raise ParsingError
SearchFailed ==
    /\ pc = "searched"
    /\ rg_error # <<>>
    /\ pc' = "raised"
    /\ UNCHANGED <<args, rg_hits, rg_output, rg_error, by_file, queue, CONSOLE, blame_calls, call>>

\* The parse without the test of the standard error.
ParseOutput_anyway ==
    /\ pc = "searched"
    /\ by_file' = IF args.isdir THEN parse_rg_output_folder(rg_output)
                  ELSE [f \in {args.path} |-> parse_rg_output_file(rg_output)]
    /\ queue' = Sorted(DOMAIN by_file')
    /\ pc' = "printing"
    /\ UNCHANGED <<args, rg_hits, rg_output, rg_error, CONSOLE, blame_calls, call>>

\* The parse of the output, and sorted(by_file).
ParseOutput ==
    /\ pc = "searched"
    /\ rg_error = <<>>
    /\ by_file' = IF args.isdir THEN parse_rg_output_folder(rg_output)
                  ELSE [f \in {args.path} |-> parse_rg_output_file(rg_output)]
    /\ queue' = Sorted(DOMAIN by_file')
    /\ pc' = "printing"
    /\ UNCHANGED <<args, rg_hits, rg_output, rg_error, CONSOLE, blame_calls, call>>

\* One turn of the loop of main: print_parsed_file for the next file.
PrintParsedFile ==
    /\ pc = "printing"
    /\ queue # <<>>
    /\ LET file == Head(queue)
           contents == by_file[file]
       IN  IF DOMAIN contents = {}
           THEN UNCHANGED <<CONSOLE, blame_calls>>
           ELSE \E found \in {MatchHits(contents.texts, args.tags)} :
                \E blame_rows \in RunBlames, now \in StartTime..(StartTime + MaxRunTicks) :
                \E out \in {print_parsed_file(file, contents, found, args, blame_rows, StartTime, now)} :
                   /\ blame_calls' = Append(blame_calls, [file |-> file, seen |-> Len(CONSOLE),
                                                          found |-> found])
                   /\ CONSOLE' = CONSOLE \o [i \in DOMAIN out |->
                                      [kind |-> out[i].kind, file |-> file, body |-> out[i].body]]
    /\ queue' = Tail(queue)
    /\ UNCHANGED <<pc, args, rg_hits, rg_output, rg_error, by_file, call>>

\* The loop is over: main returns.
Return ==
    /\ pc = "printing"
    /\ queue = <<>>
    /\ pc' = "done"
    /\ UNCHANGED <<args, rg_hits, rg_output, rg_error, by_file, queue, CONSOLE, blame_calls, call>>

Next == RunRipgrep \/ SearchFailed \/ ParseOutput \/ PrintParsedFile \/ Return

Spec == Init /\ [][Next]_vars

(***************************************************************************)
(* The claims about a run (specification Spec).                            *)
(***************************************************************************)
\* The files of by_file that have at least one parsed hit.
FilesWithHits == {f \in DOMAIN by_file : DOMAIN by_file[f] # {}}

\* The files blame_file was called for, in call order.
BlamedFiles == [i \in DOMAIN blame_calls |-> blame_calls[i].file]

\* The call of blame_file that precedes the k-th write to the console.
OwnerOf(k) ==
    CHOOSE i \in DOMAIN blame_calls :
        /\ blame_calls[i].seen < k
        /\ \A j \in DOMAIN blame_calls : blame_calls[j].seen < k => j <= i

\* C8: after the search, the files are handled one after the other in
\* ascending path order: blame_file is called once for each file with a hit
\* (strictly ascending paths, so no file twice and none retried), never for
\* a file without a hit, every file with a hit has been blamed when main
\* returns, and everything written since a call of blame_file and before the
\* next one is the output of the blamed file, from its file-name line to its
\* closing blank line.
C8_SequentialSortedFiles ==
    /\ \A i, j \in DOMAIN blame_calls :
          i < j => StrLess(blame_calls[i].file, blame_calls[j].file)
    /\ \A i \in DOMAIN blame_calls : blame_calls[i].file \in FilesWithHits
    /\ pc = "done" => {blame_calls[i].file : i \in DOMAIN blame_calls} = FilesWithHits
    /\ pc \in {"start", "searched", "raised"} => blame_calls = <<>> /\ CONSOLE = <<>>
    /\ \A k \in DOMAIN CONSOLE :
          /\ \E i \in DOMAIN blame_calls : blame_calls[i].seen < k
          /\ CONSOLE[k].file = blame_calls[OwnerOf(k)].file
    /\ \A i \in DOMAIN blame_calls :
          LET first == blame_calls[i].seen + 1
              last == IF i = Len(blame_calls) THEN Len(CONSOLE) ELSE blame_calls[i + 1].seen
          IN  /\ first < last
              /\ CONSOLE[first].kind = "filename"
              /\ CONSOLE[last].kind = "blank"
              /\ \A k \in (first + 1)..(last - 1) : CONSOLE[k].kind \notin {"filename", "blank"}

\* Two files with hits were printed, and main returned.
C8_Witness ==
    /\ pc = "done"
    /\ Len(blame_calls) = 2
    /\ Cardinality(FilesWithHits) = 2
    /\ Cardinality(DOMAIN by_file) = 2

\* A single-file scan without a hit returned without a call of blame_file.
C8_WitnessNoHit ==
    /\ pc = "done"
    /\ ~args.isdir
    /\ FilesWithHits = {}
    /\ rg_output # <<>>
    /\ blame_calls = <<>>

\* The console positions written for the i-th file that was printed.
SegmentOf(i) ==
    (blame_calls[i].seen + 1)..
        (IF i = Len(blame_calls) THEN Len(CONSOLE) ELSE blame_calls[i + 1].seen)

\* The hits of the i-th printed file that match the tag grammar, the tag
\* kinds among them, and the count of one tag.
MatchedHits(i) == {n \in DOMAIN blame_calls[i].found : blame_calls[i].found[n] # None}

TagKinds(i) == {blame_calls[i].found[n][1] : n \in MatchedHits(i)}

CountOf(i, tag) == Cardinality({n \in MatchedHits(i) : blame_calls[i].found[n][1] = tag})

Summaries(i) == {k \in SegmentOf(i) : CONSOLE[k].kind = "summary"}

\* C7 as stated: a printed file has a summary record exactly when two or more
\* tag kinds have a count above 0 in it, and the summary lists only tags
\* with a count above 0.
C7_SummaryIffTwoKinds ==
    \A i \in DOMAIN blame_calls :
        /\ Summaries(i) # {} <=> Cardinality(TagKinds(i)) >= 2
        /\ \A k \in Summaries(i) : \A j \in DOMAIN CONSOLE[k].body :
              CONSOLE[k].body[j].count > 0

\* C7, amended: with the summary option on and a style other than plain, a
\* printed file has one summary record when two or more tag kinds have a
\* count above 0 in it and none otherwise; with the option off or in plain
\* style it never has one; and a summary lists exactly the tags with a count
\* above 0, each with its count.
C7_SummaryWhenEnabled ==
    \A i \in DOMAIN blame_calls :
        /\ Summaries(i) # {}
              <=> (Cardinality(TagKinds(i)) >= 2 /\ args.summary /\ args.style # "plain")
        /\ Cardinality(Summaries(i)) <= 1
        /\ \A k \in Summaries(i) :
              /\ {CONSOLE[k].body[j].tag : j \in DOMAIN CONSOLE[k].body} = TagKinds(i)
              /\ \A j \in DOMAIN CONSOLE[k].body :
                    /\ CONSOLE[k].body[j].count = CountOf(i, CONSOLE[k].body[j].tag)
                    /\ CONSOLE[k].body[j].count > 0

\* A file with two tag kinds was printed with its summary.
C7_Witness ==
    /\ args.summary
    /\ args.style # "plain"
    /\ \E i \in DOMAIN blame_calls : Cardinality(TagKinds(i)) = 2 /\ Summaries(i) # {}

\* A text begins with a comment opener, or ends with a comment closer.
LeadingMarker(text) == OpenerEnds(text, 1) # {}

TrailingMarker(text) == \E k \in DOMAIN FixedClosers : EndsWith(text, FixedClosers[k])

\* The place of hit n among the hits of the i-th printed file that match.
RankOf(i, n) == Cardinality({m \in MatchedHits(i) : m <= n})

\* C1: a scan of one file in plain style (without --verbose) writes, for the
\* file, the file-name line, then one line "\t<TAG>: <text>" for each hit
\* that matches the tag grammar, in the order of the hits, then one blank
\* line; and no <text> begins with a comment opener or ends with a comment
\* closer.
C1_PlainEntries ==
    (args.style = "plain" /\ ~args.isdir /\ ~args.verbose) =>
        \A i \in DOMAIN blame_calls :
            LET first == blame_calls[i].seen + 1
                found == blame_calls[i].found
            IN  /\ Cardinality(SegmentOf(i)) = Cardinality(MatchedHits(i)) + 2
                /\ CONSOLE[first].kind = "filename"
                /\ CONSOLE[first + Cardinality(MatchedHits(i)) + 1].kind = "blank"
                /\ \A n \in MatchedHits(i) :
                      LET line == CONSOLE[first + RankOf(i, n)]
                          head == <<"\t">> \o found[n][1] \o <<":", " ">>
                          text == SubSeq(line.body, Len(head) + 1, Len(line.body))
                      IN  /\ line.kind = "line"
                          /\ StartsWith(line.body, head)
                          /\ ~LeadingMarker(text)
                          /\ ~TrailingMarker(text)

\* The same without the condition on <text>: the part of C1 about the order
\* and number of the lines.
C1_PlainLayout ==
    (args.style = "plain" /\ ~args.isdir /\ ~args.verbose) =>
        \A i \in DOMAIN blame_calls :
            LET first == blame_calls[i].seen + 1
                found == blame_calls[i].found
            IN  /\ Cardinality(SegmentOf(i)) = Cardinality(MatchedHits(i)) + 2
                /\ CONSOLE[first].kind = "filename"
                /\ CONSOLE[first + Cardinality(MatchedHits(i)) + 1].kind = "blank"
                /\ \A n \in MatchedHits(i) :
                      LET line == CONSOLE[first + RankOf(i, n)]
                      IN  /\ line.kind = "line"
                          /\ line.body = get_plain_line(found[n][1], found[n][2])

(***************************************************************************)
(* The parse of any output: main from the return of ripgrep to the parse,  *)
(* in folder mode (SpecFolder) and for one file (SpecFile).                *)
(***************************************************************************)
\* Most hits of an output in folder mode, and most lines of one for a file.
MaxTriples == 2

MaxOutputLines == 3

\* File paths, with and without colons; line numbers; texts, some with
\* colons, one with ":3:" inside and one that begins with "7:".
ParsePaths == { <<"a">>, <<"a", ":", "b">>, <<"c", ":", "1">> }

ParseLineNumbers == {1, 12}

ParseTexts ==
    { <<"x">>, <<>>, <<"x", ":", "y">>, <<"x", " ", ":", "3", ":", " ", "y">>,
      <<"7", ":", "y">>, <<":">> }

FolderTriples ==
    SeqsUpTo({[file |-> f, n |-> n, text |-> t] :
                 f \in ParsePaths, n \in ParseLineNumbers, t \in ParseTexts}, MaxTriples)

\* Lines of an output for one file: hits, and lines of other shapes.
FileOutputLines ==
    { <<"1", ":", "x">>, <<"1", "2", ":">>, <<"3", ":", "4", ":", "y">>, <<"x">>, <<>>,
      <<":", "x">>, <<"1">>, <<" ", "1", ":", "x">>, <<"a", "1", ":", "x">> }

FolderArgs == CHOOSE a \in ArgSets : a.isdir

FileArgs == CHOOSE a \in ArgSets : ~a.isdir

\* ripgrep has returned, without an error, the lines of some hits of a folder.
InitFolder ==
    /\ pc = "searched"
    /\ args = FolderArgs
    /\ rg_hits \in FolderTriples
    /\ rg_output = [i \in DOMAIN rg_hits |-> FolderHit(rg_hits[i].file, rg_hits[i].n, rg_hits[i].text)]
    /\ rg_error = <<>>
    /\ by_file = EmptyDict
    /\ queue = <<>>
    /\ CONSOLE = <<>>
    /\ blame_calls = <<>>
    /\ call = NoCall

NextFolder == ParseOutput

SpecFolder == InitFolder /\ [][NextFolder]_vars

\* ripgrep has returned, without an error, any lines for one file (rg_hits
\* is not used: the lines need not be hits).
InitFile ==
    /\ pc = "searched"
    /\ args = FileArgs
    /\ rg_hits = <<>>
    /\ rg_output \in SeqsUpTo(FileOutputLines, MaxOutputLines)
    /\ rg_error = <<>>
    /\ by_file = EmptyDict
    /\ queue = <<>>
    /\ CONSOLE = <<>>
    /\ blame_calls = <<>>
    /\ call = NoCall

NextFile == ParseOutput

SpecFile == InitFile /\ [][NextFile]_vars

\* The hits of one file among some triples, and the mapping the triples
\* stand for: file -> line numbers and texts, in the order of the triples.
HitsIn(triples, f) ==
    LET OfFile(t) == t.file = f
    IN  SelectSeq(triples, OfFile)

MappingOf(triples) ==
    [f \in {triples[i].file : i \in DOMAIN triples} |->
        [lines |-> [i \in DOMAIN HitsIn(triples, f) |-> ToStr(HitsIn(triples, f)[i].n)],
         texts |-> [i \in DOMAIN HitsIn(triples, f) |-> HitsIn(triples, f)[i].text]]]

\* ":<digits>:" stands somewhere in s.
HasLineNumberSegment(s) ==
    \E p \in DOMAIN s :
        /\ s[p] = ":"
        /\ LET r == RunEnd(s, p + 1, Digits)
           IN  r > p + 1 /\ r <= Len(s) /\ s[r] = ":"

\* A text that cannot be taken for the end of a file path and a line number:
\* after the ':' that precedes it, it shows no ":<digits>:".
PlainText(text) == ~HasLineNumberSegment(<<":">> \o text)

KeptShape(line) ==
    \E k \in 2..Len(line) : line[k] = ":" /\ \A j \in 1..(k - 1) : line[j] \in Digits

\* C3: for any output, the parse for one file keeps the lines of the shape
\* "<digits>:<text>" and no other, as line numbers and texts of the same
\* length in the order of the output (nothing at all when no line is kept),
\* and main stores the result under one key, the path that was given.
C3_FileParse ==
    pc = "printing" =>
        /\ DOMAIN by_file = {args.path}
        /\ LET out == by_file[args.path]
               kept == SelectSeq(rg_output, KeptShape)
           IN  IF kept = <<>> THEN out = EmptyDict
               ELSE /\ DOMAIN out = {"lines", "texts"}
                    /\ Len(out.lines) = Len(kept)
                    /\ Len(out.texts) = Len(kept)
                    /\ \A i \in DOMAIN kept :
                          /\ out.lines[i] \o <<":">> \o out.texts[i] = kept[i]
                          /\ out.lines[i] # <<>>
                          /\ \A j \in DOMAIN out.lines[i] : out.lines[i][j] \in Digits

\* An output of three lines was parsed: two were kept, one dropped.
C3_Witness ==
    /\ pc = "printing"
    /\ Len(rg_output) = 3
    /\ KeptShape(rg_output[1])
    /\ ~KeptShape(rg_output[2])
    /\ KeptShape(rg_output[3])
    /\ Len(by_file[args.path].lines) = 2

(***************************************************************************)
(* re.search(tags_regex, text) applied to any line (SpecMatch).            *)
(***************************************************************************)
\* Lines: what precedes the tag, a word that is or holds a tag, separators,
\* a text, and what follows it.
LinePrefixes ==
    { <<>>, <<"#", " ">>, <<"/", "/">>, <<"/", "*", " ">>, <<"<", "!", "-", "-", " ">>,
      <<"m">>, <<"x", " ">>, <<"y", " ", "#", " ">> }

LineWords == { <<"T", "O", "D", "O">>, <<"T", "O", "D", "O", "S">>, <<"B", "U", "G">> }

LineSeparators == { <<>>, <<":", " ">>, <<" ">>, <<":">>, <<" ", "-", " ">>, <<";">> }

LineTexts ==
    { <<>>, <<"x">>, <<"x", " ", "*", "/", " ", "y", " ", "=", " ", "1">>,
      <<"x", " ", "-", "-", ">", " ", "y">>, <<"x", "}", "}", "y">>, <<"a", " ", "b">> }

LineSuffixes == { <<>>, <<" ", "*", "/">>, <<" ", "-", "-", ">">>, <<"#", "#">> }

MatchLines ==
    {p \o w \o s \o t \o e :
        p \in LinePrefixes, w \in LineWords, s \in LineSeparators, t \in LineTexts,
        e \in LineSuffixes}

\* The tags of a run: the default ones, or one tag.
TagSets == {DefaultTags, << <<"T", "O", "D", "O">> >>}

\* The rest of the program's state when a function is applied on its own.
Apart ==
    /\ pc = "start"
    /\ args = FolderArgs
    /\ rg_hits = <<>>
    /\ rg_output = <<>>
    /\ rg_error = <<>>
    /\ by_file = EmptyDict
    /\ queue = <<>>
    /\ CONSOLE = <<>>
    /\ blame_calls = <<>>

InitMatch ==
    /\ Apart
    /\ call \in {[op |-> "re.search", tags |-> tags, text |-> text, returned |-> FALSE,
                  groups |-> None] : tags \in TagSets, text \in MatchLines}

\* matches = re.search(tags_regex, text); groups = matches.groups()
Search ==
    /\ call.op = "re.search"
    /\ ~call.returned
    /\ call' = [call EXCEPT !.returned = TRUE,
                            !.groups = tags_regex_search(call.tags, call.text)]
    /\ UNCHANGED <<pc, args, rg_hits, rg_output, rg_error, by_file, queue, CONSOLE, blame_calls>>

NextMatch == Search

SpecMatch == InitMatch /\ [][NextMatch]_vars

\* re.search has returned; it found a match.
Searched == call.op = "re.search" /\ call.returned

Matched == Searched /\ call.groups # None

\* A closing token the claim names (-->, */, a triple quote, }}, #}, #}},
\* --}}) stands in s after the first letter of s.
HasCloserInside(s) ==
    \E k \in DOMAIN FixedClosers, p \in 2..Len(s) : At(s, p, FixedClosers[k])

\* C9: the captured text of a line that matches ends at the end of the line
\* or just before the first closing token after the tag, so no closing token
\* follows the first letter of the captured text.
C9_TextEndsAtFirstCloser == Matched => ~HasCloserInside(call.groups[2])

\* The tag stands at j in the text, after the start of the line or a letter
\* that is not a word letter, and before a separator.
StandsAlone(text, tag, j) ==
    /\ At(text, j, tag)
    /\ j = 1 \/ text[j - 1] \notin WordChars
    /\ j + Len(tag) <= Len(text)
    /\ text[j + Len(tag)] \in {":", ";", "-"} \cup Whitespace

TagsOf(tags) == {tags[k] : k \in DOMAIN tags}

\* C10: a match captures a configured tag that stands, somewhere in the
\* line, after the start of the line or a word boundary and right before one
\* of ':', ';', '-' or whitespace; so a line in which configured tags only
\* stand inside longer words has no match ("TODOS: x", "mTODO: x"), and
\* "TODO: x" and "TODO x" give the pair (TODO, x).
C10_TagBoundaries ==
    Searched =>
        /\ call.groups # None =>
              /\ call.groups[1] \in TagsOf(call.tags)
              /\ \E j \in DOMAIN call.text : StandsAlone(call.text, call.groups[1], j)
        /\ (\A tag \in TagsOf(call.tags), j \in DOMAIN call.text :
                ~StandsAlone(call.text, tag, j)) => call.groups = None
        /\ call.text \in { <<"T", "O", "D", "O", "S", ":", " ", "x">>,
                           <<"m", "T", "O", "D", "O", ":", " ", "x">> }
              => call.groups = None
        /\ call.text \in { <<"T", "O", "D", "O", ":", " ", "x">>,
                           <<"T", "O", "D", "O", " ", "x">> }
              => call.groups = << <<"T", "O", "D", "O">>, <<"x">> >>

\* "# TODO: x" was searched with the default tags and gave (TODO, x).
C10_Witness ==
    /\ Searched
    /\ call.tags = DefaultTags
    /\ call.text = <<"#", " ", "T", "O", "D", "O", ":", " ", "x">>
    /\ call.groups = << <<"T", "O", "D", "O">>, <<"x">> >>

(***************************************************************************)
(* blame_lines and tag_git_author applied to the hits of one file, as the  *)
(* loop of print_parsed_file applies them (SpecBlame).                     *)
(***************************************************************************)
\* The lines of the blamed file, the most lines asked for in one call, and
\* the highest age limit.
BlameFileLines == 3

MaxAsked == 3

MaxAgeLimit == 2

\* The day of the scan: late enough for a commit to be a day older than the
\* highest age limit.
ScanDay == MaxAgeLimit + 1

\* The times of the day of the scan, and the times up to its end.
ScanTimes == {ScanDay * TicksPerDay + h : h \in 0..(TicksPerDay - 1)}

CommitTimes == 0..((ScanDay + 1) * TicksPerDay - 1)

Me == <<"m", "e">>

You == <<"y", "o", "u">>

\* `git blame --porcelain` of the first n lines of a file: commit a wrote
\* the odd lines, commit b the even ones.  A commit shows its author the
\* first time only.
RECURSIVE TwoCommits(_, _, _)
TwoCommits(ta, tb, n) ==
    IF n = 0 THEN <<>>
    ELSE TwoCommits(ta, tb, n - 1)
           \o <<HeaderRow(Hash(IF n % 2 = 1 THEN "a" ELSE "b"), n, n)>>
           \o (IF n = 1 THEN <<AuthorRow(Me), AuthorTimeRow(ta)>>
               ELSE IF n = 2 THEN <<AuthorRow(You), AuthorTimeRow(tb)>>
               ELSE <<>>)
           \o <<ContentRow>>

\* `git blame -l` of the same file, its rows reduced to the fields the
\* regular expression of parse_blame reads.
LegacyRows(da, db) ==
    [l \in 1..BlameFileLines |->
        IF l % 2 = 1 THEN [author |-> Me, day |-> da, time |-> 1]
        ELSE [author |-> You, day |-> db, time |-> 0]]

\* A blamed file: what blame_file returns for it, and who wrote its lines.
TrackedFiles ==
    {[rows |-> TwoCommits(ta, tb, BlameFileLines),
      truth |-> [l \in 1..BlameFileLines |->
                    IF l % 2 = 1 THEN [name |-> Me, date |-> ta]
                    ELSE [name |-> You, date |-> tb]]] : ta \in CommitTimes, tb \in {0}}
      \cup {[rows |-> PorcelainOf(Hash("a"), Me, t, BlameFileLines),
             truth |-> [l \in 1..BlameFileLines |-> [name |-> Me, date |-> t]]] :
                t \in CommitTimes}

UntrackedFile(today) ==
    [rows |-> FatalOutput, truth |-> [l \in 1..BlameFileLines |-> AuthorInfo(today)]]

LegacyFiles(today) ==
    {[rows |-> LegacyRows(da, db),
      truth |-> [l \in 1..BlameFileLines |->
                    IF l % 2 = 1 THEN <<Me, da * TicksPerDay>>
                    ELSE <<You, db * TicksPerDay>>]] : da \in 0..ScanDay, db \in {0}}
      \cup {[rows |-> FatalOutput, truth |-> [l \in 1..BlameFileLines |-> << <<>>, today >>]]}

\* The line numbers asked for: in any order, and not empty.
AskedLines == SeqsUpTo(1..BlameFileLines, MaxAsked) \ {<<>>}

BlameCall(op, f, lines, today, now, age_limit, style) ==
    [op |-> op, rows |-> f.rows, truth |-> f.truth, lines |-> lines, today |-> today,
     now |-> now, age_limit |-> age_limit, style |-> style, at |-> "called",
     blames |-> <<>>, labels |-> <<>>]

InitBlame ==
    /\ Apart
    /\ \E now \in ScanTimes, lines \in AskedLines, age_limit \in 0..MaxAgeLimit,
          style \in Styles :
          LET today == ScanDay * TicksPerDay
          IN  \/ \E f \in TrackedFiles \cup {UntrackedFile(today)} :
                    call = BlameCall("blame_lines", f, lines, today, now, age_limit, style)
              \/ \E f \in LegacyFiles(today) :
                    /\ age_limit = 0
                    /\ style = "plain"
                    /\ call = BlameCall("legacy_blame_lines", f, lines, today, now,
                                        age_limit, style)

\* blames = blame_lines(file, list(map(int, lines)))
BlameLines ==
    /\ call.op = "blame_lines"
    /\ call.at = "called"
    /\ call' = [call EXCEPT !.at = "blamed",
                            !.blames = blame_lines(call.rows, call.lines, call.today)]
    /\ UNCHANGED <<pc, args, rg_hits, rg_output, rg_error, by_file, queue, CONSOLE, blame_calls>>

\* The same call with rememberme/git_tools.py.
LegacyBlameLines ==
    /\ call.op = "legacy_blame_lines"
    /\ call.at = "called"
    /\ call' = [call EXCEPT !.at = "blamed",
                            !.blames = legacy_blame_lines(call.rows, call.lines, call.today)]
    /\ UNCHANGED <<pc, args, rg_hits, rg_output, rg_error, by_file, queue, CONSOLE, blame_calls>>

\* The loop over the hits: tag_git_author(blames[i], tag, age_limit, style)
\* for the i-th hit.  blames[i] raises IndexError when blames is too short.
TagGitAuthors ==
    /\ call.op = "blame_lines"
    /\ call.at = "blamed"
    /\ call' = IF Len(call.blames) < Len(call.lines)
               THEN [call EXCEPT !.at = "raised"]
               ELSE [call EXCEPT !.at = "tagged",
                                 !.labels = [i \in DOMAIN call.lines |->
                                                tag_git_author(call.blames[i],
                                                               <<"T", "O", "D", "O">>,
                                                               call.age_limit, call.style,
                                                               call.now)]]
    /\ UNCHANGED <<pc, args, rg_hits, rg_output, rg_error, by_file, queue, CONSOLE, blame_calls>>

NextBlame == BlameLines \/ LegacyBlameLines \/ TagGitAuthors

SpecBlame == InitBlame /\ [][NextBlame]_vars

\* blame_lines has returned; the labels of the hits were made.
Blamed == call.op \in {"blame_lines", "legacy_blame_lines"} /\ call.at # "called"

Tagged == call.op = "blame_lines" /\ call.at = "tagged"

Untracked == ~HasBlameLayout(call.rows[1]) /\ StartsWith(call.rows[1], Fatal)

\* C4: for a file that is tracked or not, blame_lines returns one entry for
\* each line number asked for, the i-th entry being the authorship of the
\* i-th line number asked for.
C4_OneEntryPerLine ==
    Blamed =>
        /\ Len(call.blames) = Len(call.lines)
        /\ \A i \in DOMAIN call.lines : call.blames[i] = call.truth[call.lines[i]]

\* The same for tracked files only.
C4_OneEntryPerTrackedLine ==
    (Blamed /\ ~Untracked) =>
        /\ Len(call.blames) = Len(call.lines)
        /\ \A i \in DOMAIN call.lines : call.blames[i] = call.truth[call.lines[i]]

\* The line numbers asked for are those of the hits of a file: no line twice.
HitLines == \A i, j \in DOMAIN call.lines : i # j => call.lines[i] # call.lines[j]

\* C5: when blame_file reports a fatal error, every line of the hits of the
\* file gets the AuthorInfo with the empty name and the default date, and the
\* scan goes on: the labels of all the hits are made; and an AuthorInfo with
\* an empty name gets the empty label, whatever the age limit and the style.
C5_SentinelNeverOld ==
    /\ (Blamed /\ call.op = "blame_lines" /\ Untracked /\ HitLines) =>
          /\ Len(call.blames) >= Len(call.lines)
          /\ \A i \in DOMAIN call.lines :
                call.blames[i] = [name |-> <<>>, date |-> call.today]
          /\ call.at # "raised"
    /\ Tagged =>
          /\ DOMAIN call.labels = DOMAIN call.lines
          /\ \A i \in DOMAIN call.lines :
                call.blames[i].name = <<>> => call.labels[i] = <<>>

\* The labels of two hits of a file that is not tracked were made, in full
\* style with the age limit 0, later than the default date.
C5_Witness ==
    /\ Tagged
    /\ Untracked
    /\ HitLines
    /\ call.style = "full"
    /\ call.age_limit = 0
    /\ call.now > call.today
    /\ Len(call.labels) = 2

\* The calendar day of a time, and a label that says OLD.
DayOf(t) == t \div TicksPerDay

SaysOld(label) == \E p \in DOMAIN label : At(label, p, <<"O", "L", "D", " ">>)

\* C6: a hit whose author has a name is marked OLD exactly when the day of
\* its authorship is earlier than the day of the scan minus age_limit days,
\* whatever the time of day of the scan and of the authorship: not when it
\* is age_limit days old, and when it is one day older.
C6_OldByCalendarDay ==
    (Tagged /\ call.style # "plain") =>
        \A i \in DOMAIN call.lines :
            call.blames[i].name # <<>> =>
                (SaysOld(call.labels[i])
                    <=> DayOf(call.blames[i].date) < DayOf(call.now) - call.age_limit)

\* What the comparison of tag_git_author gives: a hit is marked OLD exactly
\* when its authorship is more than age_limit days of 24 hours before the
\* time of the scan.
C6_OldByElapsedTime ==
    (Tagged /\ call.style # "plain") =>
        \A i \in DOMAIN call.lines :
            call.blames[i].name # <<>> =>
                (SaysOld(call.labels[i])
                    <=> call.blames[i].date < call.now - call.age_limit * TicksPerDay)

(***************************************************************************)
(* re.sub(COMMENT_REGEX, "", text) applied to a text, and again to its     *)
(* result (SpecClean).                                                     *)
(***************************************************************************)
\* Most tokens of a text.
MaxTokens == 4

\* Comment openers, comment closers, whitespace and ordinary letters.
CleanTokens ==
    { <<"#">>, <<"/", "/">>, <<"/", "*">>, <<"<", "!", "-", "-">>, <<"-", "-">>,
      <<"\"", "\"", "\"">>, <<"-", "-", ">">>, <<"*", "/">>, <<"}", "}">>, <<" ">>, <<"x">> }

\* The texts of up to n tokens.
RECURSIVE TextsOf(_)
TextsOf(n) ==
    IF n = 0 THEN {<<>>}
    ELSE TextsOf(n - 1) \cup {t \o k : t \in TextsOf(n - 1), k \in CleanTokens}

InitClean ==
    /\ Apart
    /\ call \in {[op |-> "re.sub", text |-> text, at |-> "called", once |-> <<>>,
                  twice |-> <<>>] : text \in TextsOf(MaxTokens)}

\* text = re.sub(COMMENT_REGEX, "", text)
Clean ==
    /\ call.op = "re.sub"
    /\ call.at = "called"
    /\ call' = [call EXCEPT !.at = "cleaned", !.once = CleanText(call.text)]
    /\ UNCHANGED <<pc, args, rg_hits, rg_output, rg_error, by_file, queue, CONSOLE, blame_calls>>

\* The same substitution applied to the cleaned text.
CleanAgain ==
    /\ call.op = "re.sub"
    /\ call.at = "cleaned"
    /\ call' = [call EXCEPT !.at = "recleaned", !.twice = CleanText(call.once)]
    /\ UNCHANGED <<pc, args, rg_hits, rg_output, rg_error, by_file, queue, CONSOLE, blame_calls>>

NextClean == Clean \/ CleanAgain

SpecClean == InitClean /\ [][NextClean]_vars

\* C11: cleaning is idempotent: a text over comment openers, comment
\* closers, whitespace and ordinary letters that was cleaned is left as it
\* is by a second cleaning.
C11_CleanIdempotent ==
    (call.op = "re.sub" /\ call.at = "recleaned") => call.twice = call.once

\* A text that lost an opener at its start and two closers at its end was
\* cleaned twice.
C11_Witness ==
    /\ call.op = "re.sub"
    /\ call.at = "recleaned"
    /\ call.text = <<"#", "x", "*", "/", "*", "/">>
    /\ call.once = <<"x">>

(***************************************************************************)
(* More claims about a run (specification Spec).                           *)
(***************************************************************************)
\* C12: when ripgrep wrote to its standard error, the run stops with
\* ParsingError before its output is parsed: whatever the standard output
\* holds, nothing is written to the console and blame_file is never called.
C12_SearchErrorAborts ==
    rg_error # <<>> =>
        /\ pc \in {"searched", "raised"}
        /\ by_file = EmptyDict
        /\ queue = <<>>
        /\ CONSOLE = <<>>
        /\ blame_calls = <<>>

\* ParsingError was raised in a run whose standard output held two hits.
C12_Witness ==
    /\ pc = "raised"
    /\ rg_error # <<>>
    /\ Len(rg_output) = 2
    /\ \A i \in DOMAIN rg_hits : rg_hits[i].n > 0

(***************************************************************************)
(* print_parsed_file applied to the hits of one file (SpecLoop).           *)
(***************************************************************************)
\* Most hits of the file.
MaxLoopHits == 3

\* The line numbers of hits, of one and of two digits.
LoopLineNumbers == {1, 9, 10, 11}

\* The texts of hits: three that match the tag grammar and one that does not.
LoopTexts ==
    { <<"#", " ", "T", "O", "D", "O", " ", "x">>,
      <<"/", "*", " ", "B", "U", "G", " ", "y", " ", "*", "/">>,
      <<"x", " ", "T", "O", "D", "O", "S">> }

\* The hits of a file: ascending line numbers, any texts.
LoopContents ==
    {[lines |-> [i \in DOMAIN ns |-> ToStr(ns[i])], texts |-> ts] :
        ns \in {s \in SeqsUpTo(LoopLineNumbers, MaxLoopHits) :
                   s # <<>> /\ \A i, j \in DOMAIN s : i < j => s[i] < s[j]},
        ts \in SeqsUpTo(LoopTexts, MaxLoopHits)}

LoopArgs ==
    {[FileArgs EXCEPT !.tags = tags, !.style = style, !.verbose = verbose,
                      !.summary = TRUE, !.author = TRUE] :
        tags \in TagSets, style \in Styles, verbose \in BOOLEAN}

InitLoop ==
    /\ Apart
    /\ \E contents \in LoopContents, a \in LoopArgs,
          rows \in {FatalOutput, PorcelainOf(Hash("a"), Me, 0, 11)} :
          /\ Len(contents.lines) = Len(contents.texts)
          /\ call = [op |-> "print_parsed_file", file |-> a.path, contents |-> contents,
                     a |-> a, rows |-> rows, at |-> "called", found |-> <<>>,
                     tag_counter |-> EmptyDict, out |-> <<>>]

\* print_parsed_file(file, contents, tags_regex, args): what it writes, and
\* its tag_counter when the loop over the hits is over.
PrintOneFile ==
    /\ call.op = "print_parsed_file"
    /\ call.at = "called"
    /\ LET contents == call.contents
           found == MatchHits(contents.texts, call.a.tags)
           blames == blame_lines(call.rows,
                                 [i \in DOMAIN contents.lines |-> ToInt(contents.lines[i])],
                                 StartTime)
           end == HitLoop(contents, found, blames, call.a, StartTime, Len(contents.texts))
       IN  call' = [call EXCEPT !.at = "returned",
                                !.found = found,
                                !.tag_counter = end.tag_counter,
                                !.out = print_parsed_file(call.file, contents, found, call.a,
                                                          call.rows, StartTime, StartTime)]
    /\ UNCHANGED <<pc, args, rg_hits, rg_output, rg_error, by_file, queue, CONSOLE, blame_calls>>

NextLoop == PrintOneFile

SpecLoop == InitLoop /\ [][NextLoop]_vars

\* print_parsed_file has returned.
Printed == call.op = "print_parsed_file" /\ call.at = "returned"

\* The hits that match the tag grammar, the place of one among them, and
\* the entries that were written.
LoopMatched == {n \in DOMAIN call.found : call.found[n] # None}

LoopRank(n) == Cardinality({m \in LoopMatched : m <= n})

LoopEntries == SelectSeq(call.out, LAMBDA e : e.kind = "line")

\* The longest line number of the file.
LoopDigits ==
    CHOOSE d \in {Len(call.contents.lines[i]) : i \in DOMAIN call.contents.lines} :
        \A i \in DOMAIN call.contents.lines : Len(call.contents.lines[i]) <= d

\* C13: a hit that does not match the tag grammar does not stop the file:
\* print_parsed_file returns after the last hit, having written the closing
\* blank line, and the entries it wrote are those of the hits that match,
\* each with its own line number, tag and text, in the order of the hits;
\* a hit that does not match leaves a warning with --verbose and nothing
\* otherwise.
C13_FailuresSkipped ==
    Printed =>
        /\ call.out[Len(call.out)].kind = "blank"
        /\ Len(LoopEntries) = Cardinality(LoopMatched)
        /\ \A n \in LoopMatched :
              LET entry == LoopEntries[LoopRank(n)].body
                  tag == call.found[n][1]
                  text == call.found[n][2]
              IN  IF call.a.style = "plain" THEN entry = get_plain_line(tag, text)
                  ELSE /\ entry[1] = pad_line_number(call.contents.lines[n], LoopDigits)
                       /\ entry[2] = prettify_line(text, tag, call.a.style)
        /\ Cardinality({k \in DOMAIN call.out : call.out[k].kind = "warning"})
              = IF call.a.verbose
                THEN Len(call.contents.texts) - Cardinality(LoopMatched)
                ELSE 0

\* A file of three hits was printed, the second of which does not match.
C13_Witness ==
    /\ Printed
    /\ Len(call.contents.texts) = 3
    /\ LoopMatched = {1, 3}
    /\ call.a.style = "bw"
    /\ Len(LoopEntries) = 2

\* C14: when the hits of a file have been handled, the tally has the
\* configured tags as its keys, the count of a tag is the number of hits
\* whose match captured it (so every captured tag is a configured one), and
\* the counts add up to the number of entries, which is no more than the
\* number of hits.
C14_TallyCountsMatches ==
    Printed =>
        /\ DOMAIN call.tag_counter = TagsOf(call.a.tags)
        /\ \A n \in LoopMatched : call.found[n][1] \in TagsOf(call.a.tags)
        /\ \A tag \in TagsOf(call.a.tags) :
              call.tag_counter[tag]
                 = Cardinality({n \in LoopMatched : call.found[n][1] = tag})
        /\ Cardinality(LoopMatched) = Len(LoopEntries)
        /\ Len(LoopEntries) <= Len(call.contents.texts)

\* A file with two TODO hits, one BUG hit was tallied under the default tags.
C14_Witness ==
    /\ Printed
    /\ call.a.tags = DefaultTags
    /\ call.tag_counter[<<"T", "O", "D", "O">>] = 2
    /\ call.tag_counter[<<"B", "U", "G">>] = 1

(***************************************************************************)
(* blame_lines applied to any rows of `git blame --porcelain`              *)
(* (SpecPorcelain).                                                        *)
(***************************************************************************)
\* Most rows of the blame output.
MaxRows == 4

\* The rows: header rows of two commits for two lines, author rows,
\* author-time rows, and rows of other kinds.
RowKinds ==
    {[kind |-> "header", hash |-> Hash(c), final |-> l] : c \in {"a", "b"}, l \in {1, 2}}
      \cup {[kind |-> "author", name |-> n] : n \in {Me, You}}
      \cup {[kind |-> "author-time", time |-> t] : t \in {0, 2}}
      \cup {[kind |-> "other", text |-> x] :
               x \in {ContentRow, <<"a", "u", "t", "h", "o", "r", "-", "m", "a", "i", "l", " ", "m">>}}

\* A row as git prints it.
RowText(r) ==
    IF r.kind = "header" THEN HeaderRow(r.hash, r.final, r.final)
    ELSE IF r.kind = "author" THEN AuthorRow(r.name)
    ELSE IF r.kind = "author-time" THEN AuthorTimeRow(r.time)
    ELSE r.text

\* The lines asked for: line 3 has no header row.
PorcelainLines == <<2, 1, 3>>

InitPorcelain ==
    /\ Apart
    /\ call \in {[op |-> "porcelain", rows |-> rows, lines |-> PorcelainLines,
                  today |-> StartTime, at |-> "called", blames |-> <<>>] :
                    rows \in SeqsUpTo(RowKinds, MaxRows) \ {<<>>}}

\* blame_lines(file_path, lines), blame_file having returned the rows.
Correlate ==
    /\ call.op = "porcelain"
    /\ call.at = "called"
    /\ call' = [call EXCEPT !.at = "blamed",
                            !.blames = blame_lines([i \in DOMAIN call.rows |-> RowText(call.rows[i])],
                                                   call.lines, call.today)]
    /\ UNCHANGED <<pc, args, rg_hits, rg_output, rg_error, by_file, queue, CONSOLE, blame_calls>>

NextPorcelain == Correlate

SpecPorcelain == InitPorcelain /\ [][NextPorcelain]_vars

Correlated == call.op = "porcelain" /\ call.at = "blamed"

\* The header rows that name line l as their final line, and the last one.
HeadersOf(l) ==
    {i \in DOMAIN call.rows : call.rows[i].kind = "header" /\ call.rows[i].final = l}

LastOf(S) == CHOOSE i \in S : \A j \in S : j <= i

\* The rows of one kind that stand under a header row of hash h: the last
\* header row before them has that hash.
RowsUnder(h, kind) ==
    {j \in DOMAIN call.rows :
        /\ call.rows[j].kind = kind
        /\ \E i \in 1..(j - 1) :
              /\ call.rows[i].kind = "header"
              /\ call.rows[i].hash = h
              /\ \A k \in (i + 1)..(j - 1) : call.rows[k].kind # "header"}

Sentinel == [name |-> <<>>, date |-> call.today]

\* C15 as stated: a line asked for resolves to the name and date recorded
\* for the hash of the last header row that names it, wherever the author
\* rows of that hash stand; to the sentinel when no header row names it or
\* its hash has no author row; and an author row before any header row is
\* given to no line.
C15_PorcelainResolution ==
    Correlated =>
        \A n \in DOMAIN call.lines :
            LET l == call.lines[n]
                h == call.rows[LastOf(HeadersOf(l))].hash
                authors == RowsUnder(h, "author")
                times == RowsUnder(h, "author-time")
            IN  IF HeadersOf(l) = {} \/ authors = {}
                THEN call.blames[n] = Sentinel
                ELSE call.blames[n] =
                        [name |-> call.rows[LastOf(authors)].name,
                         date |-> IF times = {} THEN call.today
                                  ELSE call.rows[LastOf(times)].time]

\* C15, amended: a line asked for resolves to the sentinel when no header
\* row names it or its hash has neither an author row nor an author-time
\* row; otherwise to the last name and the last time recorded under header
\* rows of the hash of the last header row that names it, the empty name or
\* the default date standing for the one that was not recorded (so a hash
\* with an author-time row only gives the empty name with that time); and an
\* author row before any header row is given to no line.
C15_PorcelainResolutionByField ==
    Correlated =>
        /\ Len(call.blames) = Len(call.lines)
        /\ \A n \in DOMAIN call.lines :
              LET l == call.lines[n]
                  h == call.rows[LastOf(HeadersOf(l))].hash
                  authors == RowsUnder(h, "author")
                  times == RowsUnder(h, "author-time")
              IN  IF HeadersOf(l) = {} THEN call.blames[n] = Sentinel
                  ELSE call.blames[n] =
                          [name |-> IF authors = {} THEN <<>>
                                    ELSE call.rows[LastOf(authors)].name,
                           date |-> IF times = {} THEN call.today
                                    ELSE call.rows[LastOf(times)].time]

\* Line 1 was named by a header row of commit a whose author and time stand
\* under an earlier header row of a, and an author row came before any
\* header row.
C15_Witness ==
    /\ Correlated
    /\ Len(call.rows) = 4
    /\ call.rows[1] = [kind |-> "author", name |-> You]
    /\ call.rows[2] = [kind |-> "header", hash |-> Hash("a"), final |-> 2]
    /\ call.rows[3] = [kind |-> "author", name |-> Me]
    /\ call.rows[4] = [kind |-> "header", hash |-> Hash("a"), final |-> 1]
    /\ call.blames[2].name = Me

=============================================================================
